---- MODULE Spec2Model ----
(***************************************************************************)
(* Model of the KDL REPL page (src/kdl/app.js): the input handler          *)
(* updateViews, the tree renderer renderAST / createNodeElement, the       *)
(* toggle handler toggleNode, the projector documentToJSON / nodeToJSON    *)
(* with renderJSON, and the view selector handler switchView.              *)
(*                                                                         *)
(* Representation of JavaScript data                                       *)
(*   string   a sequence of lexemes (TLA+ strings).  Every code point that *)
(*            the code treats specially (white space, `.', `<', `>', `&',  *)
(*            `"') is a lexeme of its own; a maximal run of other code     *)
(*            points is one lexeme.  The empty string is << >>.            *)
(*   value    a record tagged by t: null, str, num, bool, arr, obj, doc.   *)
(*   object   [t |-> "obj", fields |-> sequence of [k, v]] in insertion    *)
(*            order, the order JSON.stringify walks.                       *)
(***************************************************************************)
EXTENDS Integers, Sequences, FiniteSets, Bags, TLC

VARIABLES
    kdlInput,          \* kdlInput.value, the raw text
    viewSelector,      \* viewSelector.value
    astViewHidden,     \* astView.classList has 'hidden'
    jsonViewHidden,    \* jsonView.classList has 'hidden'
    astContent,        \* children of #ast-content
    jsonContent,       \* jsonContent.textContent
    errorText,         \* errorMessage.textContent
    errorHidden,       \* errorMessage.classList has 'hidden'
    currentDocument,   \* let currentDocument
    expandedNodes,     \* let expandedNodes (Set of node ids)
    parseCalls,        \* history: arguments of the calls of parse() made by the last event
    lastEvent,         \* history: the last event handled
    toggleCount,       \* history: bag of the node ids toggleNode got
    probe,             \* history: a (text, expand set) pair fixed at load
    probeShown,        \* history: what was displayed when the probe pair first occurred
    goneWhileExpanded, \* history: ids that, since their last toggle, were in the expand set while no container of theirs was on display
    callee,            \* direct call: the function called
    arg,               \* direct call: its arguments
    ret                \* direct call: what it returned

\* the page
page == <<kdlInput, viewSelector, astViewHidden, jsonViewHidden, astContent,
          jsonContent, errorText, errorHidden, currentDocument, expandedNodes,
          parseCalls, lastEvent, toggleCount, probe, probeShown,
          goneWhileExpanded>>

\* a function of the page called on its own, as the unit tests call it
call == <<callee, arg, ret>>

vars == <<page, call>>

----------------------------------------------------------------------------
(* Bounds *)

MaxToggles == 2

----------------------------------------------------------------------------
(* JavaScript values *)

Null == [t |-> "null"]
Undefined == [t |-> "undef"]
Str(s) == [t |-> "str", s |-> s]
Num(n) == [t |-> "num", n |-> n]
Bool(b) == [t |-> "bool", b |-> b]

\* JavaScript truthiness of a value (`if (x)', `!x')
Truthy(v) ==
    CASE v.t \in {"null", "undef"} -> FALSE
      [] v.t = "str"  -> v.s /= << >>
      [] v.t = "num"  -> v.n /= 0
      [] v.t = "bool" -> v.b
      [] OTHER        -> TRUE

----------------------------------------------------------------------------
(* Parsed documents, in the shape the code reads them:                     *)
(* doc.nodes, node.name, node.entries, node.children, entry.name,          *)
(* entry.value                                                             *)

Doc(nodes) == [t |-> "doc", nodes |-> nodes]
Node(name, entries, children) ==
    [name |-> name, entries |-> entries, children |-> children]
Arg(v) == [name |-> Null, value |-> v]
Prop(k, v) == [name |-> Str(k), value |-> v]
Leaf(name, entries) == Node(name, entries, Null)

----------------------------------------------------------------------------
(* Raw texts a user can put in the text area.  White space at either end   *)
(* of a text is in lexemes of its own.                                     *)

exampleKDL ==
    << "// Example KDL document", "\n",
       "package \"my-app\" version=\"1.0.0\" {", "\n",
       "    author \"Jane Doe\" email=\"jane@example.com\"", "\n",
       "\n",
       "    dependencies {", "\n",
       "        library \"kdl\" version=\"^0.6.0\"", "\n",
       "        library \"express\" version=\"^4.18.0\"", "\n",
       "    }", "\n",
       "\n",
       "    scripts {", "\n",
       "        start \"node index.js\"", "\n",
       "        test \"npm test\"", "\n",
       "    }", "\n",
       "}", "\n",
       "\n",
       "config {", "\n",
       "    port 3000", "\n",
       "    debug true", "\n",
       "}" >>

TextEmpty     == << >>
TextBlank     == << " ", "\n", "\t" >>
TextUnclosed  == << "\n", "invalid { unclosed", " " >>
TextComment   == << "// nothing here" >>
TextSimple    == << " ", "node \"value\"", "\n" >>
TextNested    == << "parent {", "\n", "  child \"value\"", "\n", "}" >>
TextParent    == << "parent" >>
TextSiblings  == << "a { x; }", "\n", "a { y; }" >>
TextDotName   == << "a.b { c; }" >>
TextDotPath   == << "a { b { c; }; }" >>
TextScript    == << "node \"<script>alert(1)</script>\"" >>

Texts ==
    { TextEmpty, TextBlank, TextUnclosed, TextComment, TextSimple,
      TextNested, TextParent, TextSiblings, TextDotName, TextDotPath,
      TextScript, exampleKDL }

\* String.prototype.trim
IsWhiteSpace(c) == c \in {" ", "\n", "\t", "\r"}

RECURSIVE TrimStart(_)
TrimStart(s) ==
    IF s /= << >> /\ IsWhiteSpace(Head(s)) THEN TrimStart(Tail(s)) ELSE s

RECURSIVE TrimEnd(_)
TrimEnd(s) ==
    IF s /= << >> /\ IsWhiteSpace(s[Len(s)])
    THEN TrimEnd(SubSeq(s, 1, Len(s) - 1))
    ELSE s

Trim(s) == TrimEnd(TrimStart(s))

----------------------------------------------------------------------------
(* The external parser, parse(text): a document, or a thrown error with a  *)
(* message.  It is a black box to the page; the table gives its outcome on *)
(* the sample texts, the example parsing as its author wrote it (`true' a  *)
(* boolean).                                                               *)

Ok(doc) == [ok |-> TRUE, doc |-> doc]
Throw(message) == [ok |-> FALSE, message |-> message]

ExampleDocument ==
    Doc(<<
        Node(<<"package">>,
             << Arg(Str(<<"my-app">>)), Prop(<<"version">>, Str(<<"1", ".", "0", ".", "0">>)) >>,
             Doc(<<
                Leaf(<<"author">>,
                     << Arg(Str(<<"Jane", " ", "Doe">>)),
                        Prop(<<"email">>, Str(<<"jane@example", ".", "com">>)) >>),
                Node(<<"dependencies">>, << >>,
                     Doc(<<
                        Leaf(<<"library">>,
                             << Arg(Str(<<"kdl">>)),
                                Prop(<<"version">>, Str(<<"^0", ".", "6", ".", "0">>)) >>),
                        Leaf(<<"library">>,
                             << Arg(Str(<<"express">>)),
                                Prop(<<"version">>, Str(<<"^4", ".", "18", ".", "0">>)) >>)
                     >>)),
                Node(<<"scripts">>, << >>,
                     Doc(<<
                        Leaf(<<"start">>, << Arg(Str(<<"node", " ", "index", ".", "js">>)) >>),
                        Leaf(<<"test">>, << Arg(Str(<<"npm", " ", "test">>)) >>)
                     >>))
             >>)),
        Node(<<"config">>, << >>,
             Doc(<<
                Leaf(<<"port">>, << Arg(Num(3000)) >>),
                Leaf(<<"debug">>, << Arg(Bool(TRUE)) >>)
             >>))
    >>)

parse(text) ==
    CASE text = exampleKDL -> Ok(ExampleDocument)
      [] text = Trim(TextUnclosed) -> Throw(<<"Unexpected", " ", "EOF", " ", "in", " ", "<", "block", ">">>)
      [] text = TextComment -> Ok(Doc(<< >>))
      [] text = Trim(TextSimple) -> Ok(Doc(<< Leaf(<<"node">>, << Arg(Str(<<"value">>)) >>) >>))
      [] text = TextNested ->
            Ok(Doc(<< Node(<<"parent">>, << >>,
                           Doc(<< Leaf(<<"child">>, << Arg(Str(<<"value">>)) >>) >>)) >>))
      [] text = TextParent -> Ok(Doc(<< Leaf(<<"parent">>, << >>) >>))
      [] text = TextSiblings ->
            Ok(Doc(<< Node(<<"a">>, << >>, Doc(<< Leaf(<<"x">>, << >>) >>)),
                      Node(<<"a">>, << >>, Doc(<< Leaf(<<"y">>, << >>) >>)) >>))
      [] text = TextDotName ->
            Ok(Doc(<< Node(<<"a", ".", "b">>, << >>, Doc(<< Leaf(<<"c">>, << >>) >>)) >>))
      [] text = TextDotPath ->
            Ok(Doc(<< Node(<<"a">>, << >>,
                           Doc(<< Node(<<"b">>, << >>, Doc(<< Leaf(<<"c">>, << >>) >>)) >>)) >>))
      [] text = TextScript ->
            Ok(Doc(<< Leaf(<<"node">>,
                           << Arg(Str(<<"<", "script", ">", "alert(1)", "<", "/script", ">">>)) >>) >>))
      [] OTHER -> Throw(<<"Unexpected", " ", "input">>)

----------------------------------------------------------------------------
(* Sequence helpers *)

RECURSIVE Flatten(_)
Flatten(ss) == IF ss = << >> THEN << >> ELSE Head(ss) \o Flatten(Tail(ss))

\* Array.prototype.join
RECURSIVE join(_, _)
join(ss, sep) ==
    IF ss = << >> THEN << >>
    ELSE IF Len(ss) = 1 THEN ss[1]
    ELSE ss[1] \o sep \o join(Tail(ss), sep)

----------------------------------------------------------------------------
(* Escaping and value formatting *)

\* What the browser's serialisation of a text node does to one code point
EscapeLexeme(c) ==
    CASE c = "&" -> "&amp;"
      [] c = "<" -> "&lt;"
      [] c = ">" -> "&gt;"
      [] OTHER -> c

escapeHtml(text) == [i \in 1..Len(text) |-> EscapeLexeme(text[i])]

\* JSON's QuoteJSONString on one code point
QuoteLexeme(c) ==
    CASE c = "\"" -> "\\\""
      [] c = "\\" -> "\\\\"
      [] c = "\n" -> "\\n"
      [] c = "\t" -> "\\t"
      [] c = "\r" -> "\\r"
      [] OTHER -> c

Quote(s) == <<"\"">> \o [i \in 1..Len(s) |-> QuoteLexeme(s[i])] \o <<"\"">>

\* String(value) for a number or a boolean
String(v) ==
    IF v.t = "num" THEN << ToString(v.n) >>
    ELSE IF v.b THEN << "true" >> ELSE << "false" >>

Indent(level, gap) == Flatten([i \in 1..level |-> gap])

\* JSON.stringify(value, null, gap): gap is << >> or a string of spaces
RECURSIVE JSONStringify(_, _, _)
JSONStringify(v, gap, level) ==
    LET open  == IF gap = << >> THEN << >> ELSE <<"\n">> \o Indent(level + 1, gap)
        close == IF gap = << >> THEN << >> ELSE <<"\n">> \o Indent(level, gap)
        sep   == <<",">> \o open
        colon == IF gap = << >> THEN <<":">> ELSE <<":", " ">>
    IN  CASE v.t = "null" -> << "null" >>
          [] v.t = "str"  -> Quote(v.s)
          [] v.t \in {"num", "bool"} -> String(v)
          [] v.t = "arr"  ->
                IF v.a = << >> THEN << "[]" >>
                ELSE <<"[">> \o open
                     \o join([i \in 1..Len(v.a) |-> JSONStringify(v.a[i], gap, level + 1)], sep)
                     \o close \o <<"]">>
          [] v.t = "obj"  ->
                IF v.fields = << >> THEN << "{}" >>
                ELSE <<"{">> \o open
                     \o join([i \in 1..Len(v.fields) |->
                                 Quote(v.fields[i].k) \o colon
                                 \o JSONStringify(v.fields[i].v, gap, level + 1)], sep)
                     \o close \o <<"}">>

\* variant: a string value is quoted but not escaped
formatValue_raw(value) ==
    IF value.t \in {"null", "undef"} THEN << "null" >>
    ELSE IF value.t = "str" THEN <<"\"">> \o value.s \o <<"\"">>
    ELSE IF value.t \in {"num", "bool"} THEN escapeHtml(String(value))
    ELSE escapeHtml(JSONStringify(value, << >>, 0))

\* variant: only null is tested for, undefined goes through String
formatValue_nullOnly(value) ==
    IF value.t = "null" THEN << "null" >>
    ELSE IF value.t = "undef" THEN << "undefined" >>
    ELSE IF value.t = "str" THEN <<"\"">> \o escapeHtml(value.s) \o <<"\"">>
    ELSE IF value.t \in {"num", "bool"} THEN escapeHtml(String(value))
    ELSE escapeHtml(JSONStringify(value, << >>, 0))

formatValue(value) ==
    IF value.t \in {"null", "undef"} THEN << "null" >>
    ELSE IF value.t = "str" THEN <<"\"">> \o escapeHtml(value.s) \o <<"\"">>
    ELSE IF value.t \in {"num", "bool"} THEN escapeHtml(String(value))
    ELSE escapeHtml(JSONStringify(value, << >>, 0))

----------------------------------------------------------------------------
(* The projector *)

Arr(a) == [t |-> "arr", a |-> a]
Obj(fields) == [t |-> "obj", fields |-> fields]
Field(k, v) == [k |-> k, v |-> v]

HasKey(fields, k) == \E i \in 1..Len(fields) : fields[i].k = k

\* obj[k] = v on an object's field list; an assignment to __proto__ goes
\* to the setter of Object.prototype and makes no property of the object
SetField(fields, k, v) ==
    IF k = <<"__proto__">> THEN fields
    ELSE IF HasKey(fields, k)
    THEN [i \in 1..Len(fields) |-> IF fields[i].k = k THEN Field(k, v) ELSE fields[i]]
    ELSE Append(fields, Field(k, v))

\* the forEach of nodeToJSON: args and props after the first n entries
RECURSIVE CollectArgs(_, _)
CollectArgs(entries, n) ==
    IF n = 0 THEN << >>
    ELSE IF Truthy(entries[n].name)
         THEN CollectArgs(entries, n - 1)
         ELSE Append(CollectArgs(entries, n - 1), entries[n].value)

RECURSIVE CollectProps(_, _)
CollectProps(entries, n) ==
    IF n = 0 THEN << >>
    ELSE IF Truthy(entries[n].name)
         THEN SetField(CollectProps(entries, n - 1), entries[n].name.s, entries[n].value)
         ELSE CollectProps(entries, n - 1)

\* a field the object does not have reads as undefined
Has(object, field) == field \in DOMAIN object

HasEntries(node) == Has(node, "entries") /\ Len(node.entries) > 0

\* variant: a block of children counts, even an empty one
hasChildren_anyBlock(node) ==
    /\ Has(node, "children")
    /\ node.children /= Null
    /\ Has(node.children, "nodes")

hasChildren(node) ==
    /\ Has(node, "children")
    /\ node.children /= Null
    /\ Has(node.children, "nodes")
    /\ Len(node.children.nodes) > 0

RECURSIVE nodeToJSON(_)

\* variant: the children are projected last to first
nodeToJSON_reversed(node) ==
    LET args  == CollectArgs(node.entries, Len(node.entries))
        props == CollectProps(node.entries, Len(node.entries))
        f1 == << Field(<<"name">>, Str(node.name)) >>
        f2 == IF HasEntries(node) /\ Len(args) > 0
              THEN Append(f1, Field(<<"arguments">>, Arr(args))) ELSE f1
        f3 == IF HasEntries(node) /\ Len(props) > 0
              THEN Append(f2, Field(<<"properties">>, Obj(props))) ELSE f2
        f4 == IF hasChildren(node)
              THEN Append(f3, Field(<<"children">>,
                       Arr([i \in 1..Len(node.children.nodes) |->
                               nodeToJSON(node.children.nodes[Len(node.children.nodes) + 1 - i])])))
              ELSE f3
    IN  Obj(f4)

\* variant: the children of a node are projected only while it is expanded
nodeToJSON_expandedOnly(node) ==
    LET args  == CollectArgs(node.entries, Len(node.entries))
        props == CollectProps(node.entries, Len(node.entries))
        f1 == << Field(<<"name">>, Str(node.name)) >>
        f2 == IF HasEntries(node) /\ Len(args) > 0
              THEN Append(f1, Field(<<"arguments">>, Arr(args))) ELSE f1
        f3 == IF HasEntries(node) /\ Len(props) > 0
              THEN Append(f2, Field(<<"properties">>, Obj(props))) ELSE f2
        f4 == IF hasChildren(node) /\ node.name \in expandedNodes
              THEN Append(f3, Field(<<"children">>,
                       Arr([i \in 1..Len(node.children.nodes) |->
                               nodeToJSON(node.children.nodes[i])])))
              ELSE f3
    IN  Obj(f4)

\* variant: node.entries.length is read without testing node.entries first
nodeToJSON_unguarded(node) ==
    IF ~Has(node, "entries") THEN [t |-> "TypeError"] ELSE
    LET args  == CollectArgs(node.entries, Len(node.entries))
        props == CollectProps(node.entries, Len(node.entries))
        f1 == << Field(<<"name">>, Str(node.name)) >>
        f2 == IF Len(args) > 0
              THEN Append(f1, Field(<<"arguments">>, Arr(args))) ELSE f1
        f3 == IF Len(props) > 0
              THEN Append(f2, Field(<<"properties">>, Obj(props))) ELSE f2
        f4 == IF hasChildren(node)
              THEN Append(f3, Field(<<"children">>,
                       Arr([i \in 1..Len(node.children.nodes) |->
                               nodeToJSON(node.children.nodes[i])])))
              ELSE f3
    IN  Obj(f4)

nodeToJSON(node) ==
    LET args  == CollectArgs(node.entries, Len(node.entries))
        props == CollectProps(node.entries, Len(node.entries))
        f1 == << Field(<<"name">>, Str(node.name)) >>
        f2 == IF HasEntries(node) /\ Len(args) > 0
              THEN Append(f1, Field(<<"arguments">>, Arr(args))) ELSE f1
        f3 == IF HasEntries(node) /\ Len(props) > 0
              THEN Append(f2, Field(<<"properties">>, Obj(props))) ELSE f2
        f4 == IF hasChildren(node)
              THEN Append(f3, Field(<<"children">>,
                       Arr([i \in 1..Len(node.children.nodes) |->
                               nodeToJSON(node.children.nodes[i])])))
              ELSE f3
    IN  Obj(f4)

\* variant: a missing document projects to an object without keys
documentToJSON_noKey(doc) ==
    IF doc = Null \/ ~Has(doc, "nodes") \/ Len(doc.nodes) = 0
    THEN Obj(<< >>)
    ELSE Obj(<< Field(<<"nodes">>,
                      Arr([i \in 1..Len(doc.nodes) |-> nodeToJSON(doc.nodes[i])])) >>)

documentToJSON(doc) ==
    IF doc = Null \/ ~Has(doc, "nodes")
    THEN Obj(<< Field(<<"nodes">>, Arr(<< >>)) >>)
    ELSE Obj(<< Field(<<"nodes">>, Arr([i \in 1..Len(doc.nodes) |-> nodeToJSON(doc.nodes[i])])) >>)

\* the text renderJSON puts on the JSON surface
renderJSON(doc) ==
    IF doc = Null THEN << >>
    ELSE JSONStringify(documentToJSON(doc), <<" ", " ">>, 0)

----------------------------------------------------------------------------
(* The tree renderer.  An element of #ast-content is a record; className   *)
(* tells a placeholder (ast-empty) from a node (ast-node).                 *)

ExpandedGlyph == "U+25BC"
CollapsedGlyph == "U+25B6"

Placeholder(text) == [className |-> "ast-empty", innerHTML |-> text]
EnterPlaceholder == Placeholder("Enter KDL to see the AST")
FixPlaceholder == Placeholder("Fix errors to see the AST")
NoNodesPlaceholder == Placeholder("No nodes in document")

Span(className, inner) ==
    <<"<span class=\"", className, "\">">> \o inner \o <<"</span>">>

\* the forEach of createNodeElement: args and props after the first n entries
RECURSIVE RenderArgs(_, _)
RenderArgs(entries, n) ==
    IF n = 0 THEN << >>
    ELSE IF Truthy(entries[n].name)
         THEN RenderArgs(entries, n - 1)
         ELSE Append(RenderArgs(entries, n - 1),
                     Span("ast-node-value", formatValue(entries[n].value)))

RECURSIVE RenderProps(_, _)
RenderProps(entries, n) ==
    IF n = 0 THEN << >>
    ELSE IF Truthy(entries[n].name)
         THEN Append(RenderProps(entries, n - 1),
                     Span("ast-node-property", escapeHtml(entries[n].name.s))
                     \o <<"=">> \o Span("ast-node-value", formatValue(entries[n].value)))
         ELSE RenderProps(entries, n - 1)

contentHTML(node) ==
    LET label == Span("ast-node-name", escapeHtml(node.name))
        args  == RenderArgs(node.entries, Len(node.entries))
        props == RenderProps(node.entries, Len(node.entries))
        h1 == IF HasEntries(node) /\ Len(args) > 0
              THEN label \o <<" ">> \o join(args, <<" ">>) ELSE label
        h2 == IF HasEntries(node) /\ Len(props) > 0
              THEN h1 \o <<" ">> \o join(props, <<" ">>) ELSE h1
    IN  h2

RECURSIVE createNodeElement(_, _, _)

\* variant: the id of a node with children also names its first child
createNodeElement_keyedByChild(node, path, expanded) ==
    LET nodePath == Append(path, node.name)
        nodeId == IF hasChildren(node)
                  THEN join(nodePath, <<".">>) \o <<"#">> \o node.children.nodes[1].name
                  ELSE join(nodePath, <<".">>)
        isExpanded == nodeId \in expanded
        toggle ==
            IF hasChildren(node)
            THEN [tag |-> "button", className |-> "ast-toggle",
                  textContent |-> IF isExpanded THEN ExpandedGlyph ELSE CollapsedGlyph,
                  onclick |-> nodeId]
            ELSE [tag |-> "span", className |-> "ast-toggle no-children"]
        header ==
            [className |-> "ast-node-header", toggle |-> toggle,
             content |-> [className |-> "ast-node-content", innerHTML |-> contentHTML(node)]]
        childrenDiv ==
            IF hasChildren(node)
            THEN [className |-> IF isExpanded THEN "ast-node-children"
                                ELSE "ast-node-children collapsed",
                  id |-> <<"children-">> \o nodeId,
                  nodes |-> [i \in 1..Len(node.children.nodes) |->
                                createNodeElement(node.children.nodes[i], nodePath, expanded)]]
            ELSE Null
    IN  [className |-> "ast-node", header |-> header, children |-> childrenDiv]

createNodeElement(node, path, expanded) ==
    LET nodePath == Append(path, node.name)
        nodeId == join(nodePath, <<".">>)
        isExpanded == nodeId \in expanded
        toggle ==
            IF hasChildren(node)
            THEN [tag |-> "button", className |-> "ast-toggle",
                  textContent |-> IF isExpanded THEN ExpandedGlyph ELSE CollapsedGlyph,
                  onclick |-> nodeId]
            ELSE [tag |-> "span", className |-> "ast-toggle no-children"]
        header ==
            [className |-> "ast-node-header", toggle |-> toggle,
             content |-> [className |-> "ast-node-content", innerHTML |-> contentHTML(node)]]
        childrenDiv ==
            IF hasChildren(node)
            THEN [className |-> IF isExpanded THEN "ast-node-children"
                                ELSE "ast-node-children collapsed",
                  id |-> <<"children-">> \o nodeId,
                  nodes |-> [i \in 1..Len(node.children.nodes) |->
                                createNodeElement(node.children.nodes[i], nodePath, expanded)]]
            ELSE Null
    IN  [className |-> "ast-node", header |-> header, children |-> childrenDiv]

\* variant: no test for a document without nodes
renderAST_emptyTree(doc, expanded) ==
    IF doc = Null \/ ~Has(doc, "nodes")
    THEN << NoNodesPlaceholder >>
    ELSE [i \in 1..Len(doc.nodes) |-> createNodeElement(doc.nodes[i], << >>, expanded)]

\* the content renderAST leaves in #ast-content
renderAST(doc, expanded) ==
    IF doc = Null \/ ~Has(doc, "nodes") \/ Len(doc.nodes) = 0
    THEN << NoNodesPlaceholder >>
    ELSE [i \in 1..Len(doc.nodes) |-> createNodeElement(doc.nodes[i], << >>, expanded)]

----------------------------------------------------------------------------
(* Reading the rendered tree *)

IsTree(content) == \A i \in 1..Len(content) : content[i].className = "ast-node"

\* the child containers in a list of elements, as [nodeId, collapsed, glyph]
RECURSIVE Containers(_)
Containers(elems) ==
    UNION { IF elems[i].className = "ast-node" /\ elems[i].children /= Null
            THEN { [nodeId |-> elems[i].header.toggle.onclick,
                    collapsed |-> elems[i].children.className = "ast-node-children collapsed",
                    glyph |-> elems[i].header.toggle.textContent] }
                 \cup Containers(elems[i].children.nodes)
            ELSE {}
          : i \in 1..Len(elems) }

\* the nodes of a document paired with the elements rendered for them;
\* `at' is the position of the node, as the indices from the root
RECURSIVE Rendered(_, _, _)
Rendered(nodes, elems, parent) ==
    UNION { { [at |-> Append(parent, i), parent |-> parent,
               node |-> nodes[i], elem |-> elems[i]] }
            \cup IF elems[i].children /= Null
                 THEN Rendered(nodes[i].children.nodes, elems[i].children.nodes,
                               Append(parent, i))
                 ELSE {}
          : i \in 1..Len(elems) }

\* the node ids the toggle buttons of the rendered tree pass to toggleNode
ToggleIds(elems) == { c.nodeId : c \in Containers(elems) }

----------------------------------------------------------------------------
(* What the page shows *)

\* the top-level state on display
TopState ==
    IF ~errorHidden THEN "error"
    ELSE IF astContent = << EnterPlaceholder >> THEN "empty"
    ELSE "tree"

\* everything a user can see of the outcome of an input event
Shown ==
    [errorVisible |-> ~errorHidden,
     errorText |-> IF errorHidden THEN << >> ELSE errorText,
     ast |-> astContent,
     json |-> jsonContent,
     doc |-> currentDocument]

----------------------------------------------------------------------------
(* The handlers *)

\* updateViews, the branch taken for blank input
ShowEmpty ==
    /\ currentDocument' = Null
    /\ astContent' = << EnterPlaceholder >>
    /\ jsonContent' = << >>
    /\ errorHidden' = TRUE
    /\ UNCHANGED <<errorText, expandedNodes>>

\* updateViews, the try block once parse() has returned doc
ShowParsed(doc) ==
    /\ currentDocument' = doc
    /\ errorHidden' = TRUE
    /\ astContent' = renderAST(doc, expandedNodes)
    /\ jsonContent' = renderJSON(doc)
    /\ UNCHANGED <<errorText, expandedNodes>>

\* updateViews, the catch block for an error with this message
ShowFailed(message) ==
    /\ currentDocument' = Null
    /\ errorText' = <<"Parse Error: ">> \o message
    /\ errorHidden' = FALSE
    /\ astContent' = << FixPlaceholder >>
    /\ jsonContent' = << >>
    /\ UNCHANGED expandedNodes

\* the branch updateViews() takes with kdlInput.value = value
UpdateViewsBranch(value) ==
    IF ~Truthy(Str(Trim(value))) THEN "blank"
    ELSE IF parse(Trim(value)).ok THEN "try"
    ELSE "catch"

\* variant: parse() is called before the test for blank input
CallParse_always(value) ==
    /\ parseCalls' = << Trim(value) >>
    /\ UNCHANGED <<viewSelector, astViewHidden, jsonViewHidden>>

\* updateViews: the call of parse(), and what no branch touches
CallParse(value) ==
    /\ parseCalls' = IF UpdateViewsBranch(value) = "blank" THEN << >> ELSE << Trim(value) >>
    /\ UNCHANGED <<viewSelector, astViewHidden, jsonViewHidden>>

\* variants of the three branches
ShowParsed_errorStays(doc) ==
    /\ currentDocument' = doc
    /\ astContent' = renderAST(doc, expandedNodes)
    /\ jsonContent' = renderJSON(doc)
    /\ UNCHANGED <<errorHidden, errorText, expandedNodes>>

ShowFailed_staleJson(message) ==
    /\ currentDocument' = Null
    /\ errorText' = <<"Parse Error: ">> \o message
    /\ errorHidden' = FALSE
    /\ astContent' = << FixPlaceholder >>
    /\ UNCHANGED <<jsonContent, expandedNodes>>

ShowFailed_staleTree(message) ==
    /\ currentDocument' = Null
    /\ errorText' = <<"Parse Error: ">> \o message
    /\ errorHidden' = FALSE
    /\ jsonContent' = << >>
    /\ UNCHANGED <<astContent, expandedNodes>>

ShowFailed_resets(message) ==
    /\ currentDocument' = Null
    /\ errorText' = <<"Parse Error: ">> \o message
    /\ errorHidden' = FALSE
    /\ astContent' = << FixPlaceholder >>
    /\ jsonContent' = << >>
    /\ expandedNodes' = {}

ShowFailed_keepsDocument(message) ==
    /\ errorText' = <<"Parse Error: ">> \o message
    /\ errorHidden' = FALSE
    /\ astContent' = << FixPlaceholder >>
    /\ jsonContent' = << >>
    /\ UNCHANGED <<currentDocument, expandedNodes>>

ShowEmpty_staleTree ==
    /\ currentDocument' = Null
    /\ jsonContent' = << >>
    /\ errorHidden' = TRUE
    /\ UNCHANGED <<astContent, errorText, expandedNodes>>

ShowEmpty_errorStays ==
    /\ currentDocument' = Null
    /\ astContent' = << EnterPlaceholder >>
    /\ jsonContent' = << >>
    /\ UNCHANGED <<errorHidden, errorText, expandedNodes>>

ShowEmpty_resets ==
    /\ currentDocument' = Null
    /\ astContent' = << EnterPlaceholder >>
    /\ jsonContent' = << >>
    /\ errorHidden' = TRUE
    /\ expandedNodes' = {}
    /\ UNCHANGED errorText

updateViews_errorStays(value) ==
    /\ CallParse(value)
    /\ CASE UpdateViewsBranch(value) = "blank" -> ShowEmpty
         [] UpdateViewsBranch(value) = "try" -> ShowParsed_errorStays(parse(Trim(value)).doc)
         [] UpdateViewsBranch(value) = "catch" -> ShowFailed(parse(Trim(value)).message)

updateViews_staleJson(value) ==
    /\ CallParse(value)
    /\ CASE UpdateViewsBranch(value) = "blank" -> ShowEmpty
         [] UpdateViewsBranch(value) = "try" -> ShowParsed(parse(Trim(value)).doc)
         [] UpdateViewsBranch(value) = "catch" -> ShowFailed_staleJson(parse(Trim(value)).message)

updateViews_staleTree(value) ==
    /\ CallParse(value)
    /\ CASE UpdateViewsBranch(value) = "blank" -> ShowEmpty
         [] UpdateViewsBranch(value) = "try" -> ShowParsed(parse(Trim(value)).doc)
         [] UpdateViewsBranch(value) = "catch" -> ShowFailed_staleTree(parse(Trim(value)).message)

updateViews_failedResets(value) ==
    /\ CallParse(value)
    /\ CASE UpdateViewsBranch(value) = "blank" -> ShowEmpty
         [] UpdateViewsBranch(value) = "try" -> ShowParsed(parse(Trim(value)).doc)
         [] UpdateViewsBranch(value) = "catch" -> ShowFailed_resets(parse(Trim(value)).message)

updateViews_emptyErrorStays(value) ==
    /\ CallParse(value)
    /\ CASE UpdateViewsBranch(value) = "blank" -> ShowEmpty_errorStays
         [] UpdateViewsBranch(value) = "try" -> ShowParsed(parse(Trim(value)).doc)
         [] UpdateViewsBranch(value) = "catch" -> ShowFailed(parse(Trim(value)).message)

updateViews_emptyResets(value) ==
    /\ CallParse(value)
    /\ CASE UpdateViewsBranch(value) = "blank" -> ShowEmpty_resets
         [] UpdateViewsBranch(value) = "try" -> ShowParsed(parse(Trim(value)).doc)
         [] UpdateViewsBranch(value) = "catch" -> ShowFailed(parse(Trim(value)).message)

updateViews_emptyStaleTree(value) ==
    /\ CallParse(value)
    /\ CASE UpdateViewsBranch(value) = "blank" -> ShowEmpty_staleTree
         [] UpdateViewsBranch(value) = "try" -> ShowParsed(parse(Trim(value)).doc)
         [] UpdateViewsBranch(value) = "catch" -> ShowFailed(parse(Trim(value)).message)

updateViews_keepsDocument(value) ==
    /\ CallParse(value)
    /\ CASE UpdateViewsBranch(value) = "blank" -> ShowEmpty
         [] UpdateViewsBranch(value) = "try" -> ShowParsed(parse(Trim(value)).doc)
         [] UpdateViewsBranch(value) = "catch" -> ShowFailed_keepsDocument(parse(Trim(value)).message)

\* updateViews() with kdlInput.value = value
updateViews(value) ==
    /\ CallParse(value)
    /\ CASE UpdateViewsBranch(value) = "blank" -> ShowEmpty
         [] UpdateViewsBranch(value) = "try" -> ShowParsed(parse(Trim(value)).doc)
         [] UpdateViewsBranch(value) = "catch" -> ShowFailed(parse(Trim(value)).message)

\* variant: the id is added and never deleted
toggleNode_addOnly(nodeId) ==
    /\ expandedNodes' = expandedNodes \cup {nodeId}
    /\ astContent' = renderAST(currentDocument, expandedNodes')
    /\ parseCalls' = << >>
    /\ UNCHANGED <<currentDocument, jsonContent, errorText, errorHidden,
                   viewSelector, astViewHidden, jsonViewHidden>>

\* variant: expanding a node collapses every other one
toggleNode_accordion(nodeId) ==
    /\ expandedNodes' = IF nodeId \in expandedNodes THEN {} ELSE {nodeId}
    /\ astContent' = renderAST(currentDocument, expandedNodes')
    /\ parseCalls' = << >>
    /\ UNCHANGED <<currentDocument, jsonContent, errorText, errorHidden,
                   viewSelector, astViewHidden, jsonViewHidden>>

\* variant: the set is changed and the tree is left as it is
toggleNode_noRender(nodeId) ==
    /\ expandedNodes' = IF nodeId \in expandedNodes
                        THEN expandedNodes \ {nodeId}
                        ELSE expandedNodes \cup {nodeId}
    /\ parseCalls' = << >>
    /\ UNCHANGED <<currentDocument, astContent, jsonContent, errorText, errorHidden,
                   viewSelector, astViewHidden, jsonViewHidden>>

toggleNode(nodeId) ==
    /\ expandedNodes' = IF nodeId \in expandedNodes
                        THEN expandedNodes \ {nodeId}
                        ELSE expandedNodes \cup {nodeId}
    /\ astContent' = renderAST(currentDocument, expandedNodes')
    /\ parseCalls' = << >>
    /\ UNCHANGED <<currentDocument, jsonContent, errorText, errorHidden,
                   viewSelector, astViewHidden, jsonViewHidden>>

\* variant: selecting 'ast' does not hide the JSON view
switchView_keepsJson(selectedView) ==
    /\ IF selectedView = "ast"
       THEN astViewHidden' = FALSE /\ UNCHANGED jsonViewHidden
       ELSE astViewHidden' = TRUE /\ jsonViewHidden' = FALSE
    /\ parseCalls' = << >>
    /\ UNCHANGED <<currentDocument, astContent, jsonContent, errorText,
                   errorHidden, expandedNodes>>

\* variant: changing the view forgets which nodes are expanded
switchView_collapsesAll(selectedView) ==
    /\ IF selectedView = "ast"
       THEN astViewHidden' = FALSE /\ jsonViewHidden' = TRUE
       ELSE astViewHidden' = TRUE /\ jsonViewHidden' = FALSE
    /\ parseCalls' = << >>
    /\ expandedNodes' = {}
    /\ UNCHANGED <<currentDocument, astContent, jsonContent, errorText, errorHidden>>

\* switchView() with viewSelector.value = selectedView
switchView(selectedView) ==
    /\ IF selectedView = "ast"
       THEN astViewHidden' = FALSE /\ jsonViewHidden' = TRUE
       ELSE astViewHidden' = TRUE /\ jsonViewHidden' = FALSE
    /\ parseCalls' = << >>
    /\ UNCHANGED <<currentDocument, astContent, jsonContent, errorText,
                   errorHidden, expandedNodes>>

----------------------------------------------------------------------------
(* History *)

NoProbe == [none |-> TRUE]

ProbeMatches ==
    /\ probe /= NoProbe
    /\ probe.text = kdlInput
    /\ probe.expanded = expandedNodes

----------------------------------------------------------------------------
(* Events *)

\* after an event in which the ids of toggled went to toggleNode
NoteGone(toggled) ==
    goneWhileExpanded' =
        (goneWhileExpanded \ toggled)
        \cup { k \in expandedNodes' : k \notin ToggleIds(astContent') }

ViewNames == {"ast", "json"}

\* 'input' on the text area: the user leaves text in it
InputEvent ==
    \E text \in Texts :
        /\ kdlInput' = text
        /\ updateViews(text)
        /\ lastEvent' = [kind |-> "input", from |-> TopState]
        /\ NoteGone({})
        /\ UNCHANGED <<toggleCount, probe, call>>
        /\ probeShown' =
               IF ProbeMatches'
               THEN IF probeShown = Null
                    THEN [shown |-> Shown', again |-> FALSE]
                    ELSE [probeShown EXCEPT !.again = TRUE]
               ELSE probeShown

\* click on a toggle button of the rendered tree; any button in the document
\* can be activated, also one inside a collapsed container
ToggleClick ==
    \E nodeId \in ToggleIds(astContent) :
        /\ BagCardinality(toggleCount) < MaxToggles
        /\ toggleNode(nodeId)
        /\ toggleCount' = toggleCount (+) SetToBag({nodeId})
        /\ lastEvent' = [kind |-> "toggle", nodeId |-> nodeId]
        /\ NoteGone({nodeId})
        /\ UNCHANGED <<kdlInput, probe, probeShown, call>>

\* 'change' on the view selector
ViewChange ==
    \E selectedView \in ViewNames :
        /\ viewSelector' = selectedView
        /\ switchView(selectedView)
        /\ lastEvent' = [kind |-> "view"]
        /\ UNCHANGED <<kdlInput, toggleCount, probe, probeShown, goneWhileExpanded, call>>

\* the page's markup at load: the selector on 'ast', the AST view shown,
\* the JSON view and the error message hidden, the error message empty
InitialMarkup ==
    /\ viewSelector = "ast"
    /\ astViewHidden = FALSE
    /\ jsonViewHidden = TRUE
    /\ errorText = << >>

\* the state once the module has run: the example in the text area and
\* the first updateViews() done
Loaded ==
    /\ InitialMarkup
    /\ kdlInput = exampleKDL
    /\ expandedNodes = {}
    /\ currentDocument = parse(Trim(exampleKDL)).doc
    /\ errorHidden = TRUE
    /\ astContent = renderAST(currentDocument, {})
    /\ jsonContent = renderJSON(currentDocument)
    /\ parseCalls = << Trim(exampleKDL) >>
    /\ lastEvent = [kind |-> "load"]
    /\ toggleCount = EmptyBag
    /\ probeShown = Null
    /\ goneWhileExpanded = {}

\* no function has been called on its own
NoCall ==
    /\ callee = "none"
    /\ arg = Null
    /\ ret = Null

Init == Loaded /\ probe = NoProbe /\ NoCall

Next == InputEvent \/ ToggleClick \/ ViewChange

Spec == Init /\ [][Next]_vars

\* the (text, expand set) pairs whose outcomes are compared across histories
ProbePairs ==
    { [text |-> TextNested, expanded |-> {<<"parent">>}],
      [text |-> TextUnclosed, expanded |-> {}] }

InitProbe == Loaded /\ probe \in ProbePairs /\ NoCall

SpecProbe == InitProbe /\ [][Next]_vars

----------------------------------------------------------------------------
(* Direct calls of the projector and of the renderer on documents of the   *)
(* data model, whatever text they would be parsed from                     *)

MaxEntries == 3

ScriptText == <<"<", "script", ">", "alert(1)", "<", "/script", ">">>

\* entries: two arguments, two properties of one key, a key with `&',
\* the empty key, the key __proto__
EntryPool ==
    { Arg(Str(ScriptText)),
      Arg(Num(1)),
      Prop(<<"k">>, Str(<<"y">>)),
      Prop(<<"k">>, Null),
      Prop(<<"a", "&", "b">>, Bool(TRUE)),
      Prop(<< >>, Num(3)),
      Prop(<<"__proto__">>, Str(<<"p">>)) }

EntryLists == UNION { [1..n -> EntryPool] : n \in 0..MaxEntries }

\* what node.children can be: null, an empty block, one child, two
\* children, the first with an empty block and the second with a child
\* that has no field but its name
NestedBlock ==
    Doc(<< Node(<<"b">>, << Prop(<<"k">>, Num(1)), Arg(Str(<<"x">>)) >>, Doc(<< >>)),
           Node(<<"a">>, << Arg(Null) >>,
                Doc(<< [name |-> <<"<", "c", ">">>] >>)) >>)

ChildBlocks ==
    { Null,
      Doc(<< >>),
      Doc(<< Leaf(<<"b">>, << >>) >>),
      NestedBlock }

CallNodes ==
    { Node(<<"a">>, e, c) : e \in EntryLists, c \in ChildBlocks }
    \cup { [name |-> <<"a">>, entries |-> e] : e \in EntryLists }
    \cup { [name |-> <<"a", "&", "<", "b", ">">>, children |-> c] : c \in ChildBlocks }

\* a node named a.b beside a node b inside a node a
DottedDocument ==
    Doc(<< Node(<<"a", ".", "b">>, << >>, Doc(<< Leaf(<<"c">>, << >>) >>)),
           Node(<<"a">>, << >>,
                Doc(<< Node(<<"b">>, << >>, Doc(<< Leaf(<<"c">>, << >>) >>)) >>)) >>)

CallDocuments ==
    { Doc(<< n >>) : n \in CallNodes }
    \cup { Doc(<< >>), [t |-> "doc"], Null,
           Doc(<< Leaf(<<"b">>, << >>),
                  Node(<<"a">>, << >>, NestedBlock),
                  Leaf(<<"c">>, << Arg(Bool(FALSE)) >>) >>),
           DottedDocument }

CallExpandSets == { {}, {<<"a">>}, {<<"a">>, <<"a", ".", "a">>, <<"a", ".", "b">>} }

\* values given to formatValue: the ones of the unit tests and some with
\* markup in them
CallValues ==
    { Null, Undefined,
      Str(<< >>), Str(<<"hello">>), Str(<<"hello", " ", "<", "world", ">">>),
      Str(ScriptText), Str(<<"a", "&", "b">>),
      Num(42), Num(0), Num(-10), Bool(TRUE), Bool(FALSE),
      Obj(<< Field(<<"key">>, Str(<<"value">>)) >>),
      Obj(<< >>),
      Arr(<< Num(1), Num(2), Num(3) >>),
      Arr(<< Str(<<"<", "b", ">">>), Null, Obj(<< Field(<<"a", "&", "b">>, Bool(TRUE)) >>) >>) }

CallInputs ==
    { [doc |-> d, expanded |-> e] : d \in CallDocuments, e \in CallExpandSets }
    \cup { [value |-> v] : v \in CallValues }

InitCall ==
    /\ Loaded
    /\ probe = NoProbe
    /\ callee = "none"
    /\ arg \in CallInputs
    /\ ret = Null

CallDocumentToJSON ==
    /\ callee = "none"
    /\ Has(arg, "doc")
    /\ callee' = "documentToJSON"
    /\ ret' = documentToJSON(arg.doc)
    /\ UNCHANGED <<page, arg>>

\* renderAST with currentDocument = arg.doc and expandedNodes = arg.expanded
CallRenderAST ==
    /\ callee = "none"
    /\ Has(arg, "doc")
    /\ callee' = "renderAST"
    /\ ret' = renderAST(arg.doc, arg.expanded)
    /\ UNCHANGED <<page, arg>>

CallFormatValue ==
    /\ callee = "none"
    /\ Has(arg, "value")
    /\ callee' = "formatValue"
    /\ ret' = formatValue(arg.value)
    /\ UNCHANGED <<page, arg>>

NextCall == CallDocumentToJSON \/ CallRenderAST \/ CallFormatValue

SpecCall == InitCall /\ [][NextCall]_vars

----------------------------------------------------------------------------
(* Properties *)

Blank == Trim(kdlInput) = << >>
Parses == parse(Trim(kdlInput)).ok

ShowsEmptyInput == astContent = << EnterPlaceholder >>
ShowsError == ~errorHidden \/ astContent = << FixPlaceholder >>
ShowsRenderedTree == IsTree(astContent) \/ astContent = << NoNodesPlaceholder >>

\* C1: exactly one of the two output surfaces is visible in every state;
\* with `json' selected it is the JSON surface, with `ast' the tree surface.
C1_ExactlyOneSurface ==
    /\ astViewHidden /= jsonViewHidden
    /\ viewSelector = "json" => astViewHidden /\ ~jsonViewHidden
    /\ viewSelector = "ast" => ~astViewHidden /\ jsonViewHidden

C1_Witness ==
    /\ lastEvent.kind = "view"
    /\ viewSelector = "ast"
    /\ ~astViewHidden
    /\ toggleCount /= EmptyBag
    /\ kdlInput /= exampleKDL

\* C2: the top-level state on display is exactly one of empty-input, error
\* and rendered-tree, and the raw text decides which: empty-input iff the
\* trimmed text is empty, error iff it is not and parsing fails,
\* rendered-tree iff it is not and parsing succeeds.
C2_TopStateByText ==
    /\ Cardinality({ x \in {"empty", "error", "tree"} :
                       \/ x = "empty" /\ ShowsEmptyInput
                       \/ x = "error" /\ ShowsError
                       \/ x = "tree" /\ ShowsRenderedTree }) = 1
    /\ ShowsEmptyInput <=> Blank
    /\ ShowsError <=> ~Blank /\ ~Parses
    /\ ShowsRenderedTree <=> ~Blank /\ Parses

C2_Witness ==
    /\ lastEvent.kind = "input"
    /\ lastEvent.from = "error"
    /\ ShowsRenderedTree
    /\ errorText /= << >>

\* C3: after an input event whose text fails to parse, the error indicator
\* is visible and reads `Parse Error: ' followed by the parser's message,
\* the tree surface shows the `Fix errors' placeholder, the JSON surface is
\* empty and no document is retained.
C3_ParseFailure ==
    (lastEvent.kind = "input" /\ ~Blank /\ ~Parses) =>
        /\ ~errorHidden
        /\ errorText = <<"Parse Error: ">> \o parse(Trim(kdlInput)).message
        /\ astContent = << [className |-> "ast-empty",
                            innerHTML |-> "Fix errors to see the AST"] >>
        /\ jsonContent = << >>
        /\ currentDocument = Null

C3_Witness ==
    /\ lastEvent.kind = "input"
    /\ lastEvent.from = "tree"
    /\ ~Blank /\ ~Parses
    /\ ~errorHidden
    /\ expandedNodes /= {}

\* C4: after an input event whose text is empty or white space only, the
\* error indicator is hidden, the tree surface shows the `Enter KDL'
\* placeholder, the JSON surface is empty and no document is retained.
C4_EmptyInput ==
    (lastEvent.kind = "input" /\ Blank) =>
        /\ errorHidden
        /\ astContent = << [className |-> "ast-empty",
                            innerHTML |-> "Enter KDL to see the AST"] >>
        /\ jsonContent = << >>
        /\ currentDocument = Null

C4_Witness ==
    /\ lastEvent.kind = "input"
    /\ lastEvent.from = "error"
    /\ Blank
    /\ kdlInput /= << >>
    /\ errorHidden

\* C5: whenever an input event ends with the probe's text and expand set,
\* what is displayed equals what was displayed the first time that pair
\* occurred, whatever happened in between.
C5_SameOutcome ==
    (lastEvent.kind = "input" /\ ProbeMatches /\ probeShown /= Null) =>
        Shown = probeShown.shown

C5_Witness ==
    /\ lastEvent.kind = "input"
    /\ lastEvent.from = "error"
    /\ ProbeMatches
    /\ probeShown /= Null
    /\ probeShown.again
    /\ IsTree(astContent)

\* C6: when the text parses to a document without nodes, the tree surface
\* shows the `No nodes in document' placeholder, which is neither of the
\* other two placeholders, the error indicator is hidden and the JSON
\* surface holds the serialization of { nodes: [] }.
C6_NoNodes ==
    (~Blank /\ Parses /\ parse(Trim(kdlInput)).doc.nodes = << >>) =>
        /\ astContent = << [className |-> "ast-empty",
                            innerHTML |-> "No nodes in document"] >>
        /\ astContent /= << EnterPlaceholder >>
        /\ astContent /= << FixPlaceholder >>
        /\ errorHidden
        /\ jsonContent = << "{", "\n", " ", " ", "\"", "nodes", "\"", ":", " ", "[]", "\n", "}" >>

C6_Witness ==
    /\ lastEvent.kind = "input"
    /\ lastEvent.from = "error"
    /\ kdlInput = TextComment
    /\ astContent = << NoNodesPlaceholder >>

\* C7: a child container is rendered expanded iff its node id went to
\* toggleNode an odd number of times; in particular it is collapsed when
\* the id was never toggled.
C7_ExpandedIffOdd ==
    \A c \in Containers(astContent) :
        ~c.collapsed <=> CopiesIn(c.nodeId, toggleCount) % 2 = 1

C7_Witness ==
    /\ lastEvent.kind = "input"
    /\ lastEvent.from = "error"
    /\ \E c, d \in Containers(astContent) :
          /\ CopiesIn(c.nodeId, toggleCount) = 0 /\ c.collapsed
          /\ CopiesIn(d.nodeId, toggleCount) = 1 /\ ~d.collapsed

\* C8: a toggle of id k flips the membership of k in the expand set,
\* changes the membership of no other id, and leaves on the tree surface
\* the rendering of the current document under the new expand set.
C8_ToggleFlips ==
    [][ toggleCount' /= toggleCount =>
          LET k == lastEvent'.nodeId
          IN  /\ (k \in expandedNodes') <=> (k \notin expandedNodes)
              /\ expandedNodes' \ {k} = expandedNodes \ {k}
              /\ astContent' = renderAST(currentDocument', expandedNodes')
              /\ IsTree(astContent')
              /\ currentDocument' = currentDocument ]_vars

C8_Witness ==
    /\ lastEvent.kind = "toggle"
    /\ lastEvent.nodeId \notin expandedNodes
    /\ CopiesIn(lastEvent.nodeId, toggleCount) = 2

\* C9: input events and view-selector events leave the expand set as it
\* is; only a toggle changes it.
C9_OnlyToggleChanges ==
    [][ /\ lastEvent'.kind \in {"input", "view"} => expandedNodes' = expandedNodes
        /\ expandedNodes' /= expandedNodes => toggleCount' /= toggleCount ]_vars

C9_Witness ==
    /\ lastEvent.kind = "view"
    /\ TopState = "empty"
    /\ expandedNodes /= {}

\* C10: an id that was in the expand set while no container of it was on
\* display, and that was not toggled since, has its container rendered
\* expanded when a node with children appears at that path again.
C10_ExpandSurvives ==
    \A c \in Containers(astContent) :
        c.nodeId \in goneWhileExpanded => ~c.collapsed

C10_Witness ==
    /\ lastEvent.kind = "input"
    /\ lastEvent.from = "error"
    /\ \E c \in Containers(astContent) :
          c.nodeId \in goneWhileExpanded /\ ~c.collapsed

\* the nodes of the retained document with their elements on the tree surface
RenderedNow ==
    IF currentDocument /= Null /\ IsTree(astContent)
    THEN Rendered(currentDocument.nodes, astContent, << >>)
    ELSE {}

NumChildren(node) ==
    IF Has(node, "children") /\ node.children /= Null /\ Has(node.children, "nodes")
    THEN Len(node.children.nodes)
    ELSE 0

Collapsed(r) == r.elem.children.className = "ast-node-children collapsed"

SameNameSiblings(r, s) ==
    /\ r.at /= s.at
    /\ r.parent = s.parent
    /\ r.node.name = s.node.name
    /\ NumChildren(r.node) > 0
    /\ NumChildren(s.node) > 0

\* C11: when the toggle of a node is activated, each sibling of the same
\* name that has children is rendered with the same collapsed/expanded
\* status as the node, and the status of both has flipped.
C11_SiblingsShare ==
    [][ toggleCount' /= toggleCount =>
          \A r, s \in RenderedNow' :
              (SameNameSiblings(r, s)
                 /\ r.elem.header.toggle.onclick = lastEvent'.nodeId) =>
                  /\ Collapsed(r) = Collapsed(s)
                  /\ \A q \in RenderedNow :
                        q.at \in {r.at, s.at} => Collapsed(q) /= Collapsed(r) ]_vars

C11_Witness ==
    /\ lastEvent.kind = "toggle"
    /\ \E r, s \in RenderedNow :
          /\ SameNameSiblings(r, s)
          /\ r.elem.header.toggle.onclick = lastEvent.nodeId
          /\ ~Collapsed(r)
          /\ ~Collapsed(s)

----------------------------------------------------------------------------
(* The renderer and the projector called on their own *)

\* the nodes of the document given to renderAST with the elements returned
RenderedCall ==
    IF callee = "renderAST" /\ IsTree(ret)
    THEN Rendered(arg.doc.nodes, ret, << >>)
    ELSE {}

\* C12: every node of a rendered tree has a toggle button and a child
\* container if it has at least one child node, and otherwise (children
\* absent, null or empty) the spacer and no child container.
C12_ToggleIffChild ==
    callee = "renderAST" =>
        /\ IsTree(ret) <=> (arg.doc /= Null /\ Has(arg.doc, "nodes") /\ arg.doc.nodes /= << >>)
        /\ \A r \in RenderedCall :
              IF NumChildren(r.node) > 0
              THEN /\ r.elem.header.toggle.tag = "button"
                   /\ r.elem.header.toggle.className = "ast-toggle"
                   /\ r.elem.children /= Null
                   /\ Len(r.elem.children.nodes) = NumChildren(r.node)
              ELSE /\ r.elem.header.toggle.tag = "span"
                   /\ r.elem.header.toggle.className = "ast-toggle no-children"
                   /\ r.elem.children = Null

\* a tree with nodes whose children are absent, an empty block, present
C12_Witness ==
    /\ \E r \in RenderedCall : ~Has(r.node, "children")
    /\ \E r \in RenderedCall :
          /\ Has(r.node, "children") /\ r.node.children /= Null
          /\ NumChildren(r.node) = 0
          /\ r.elem.header.toggle.tag = "span"
    /\ \E r \in RenderedCall : NumChildren(r.node) = 2 /\ r.elem.children /= Null

\* obj[k] read from a projected object that has the key
Get(obj, k) ==
    LET i == CHOOSE i \in 1..Len(obj.fields) : obj.fields[i].k = k
    IN  obj.fields[i].v

\* Object.keys(obj)
Keys(obj) == [i \in 1..Len(obj.fields) |-> obj.fields[i].k]

\* the entries of a node by kind, as the data model tells them apart: a
\* property carries a string key, an argument carries none
EntriesOf(node) == IF Has(node, "entries") THEN node.entries ELSE << >>
IsProperty(entry) == entry.name /= Null /\ entry.name.t = "str"
IsArgument(entry) == entry.name = Null
PropertyEntries(node) == SelectSeq(EntriesOf(node), IsProperty)
ArgumentEntries(node) == SelectSeq(EntriesOf(node), IsArgument)

\* the nodes of a document, at any depth, paired with their projections
RECURSIVE Projected(_, _, _)
Projected(nodes, objs, parent) ==
    UNION { { [at |-> Append(parent, i), node |-> nodes[i], obj |-> objs[i]] }
            \cup IF NumChildren(nodes[i]) > 0 /\ HasKey(objs[i].fields, <<"children">>)
                 THEN Projected(nodes[i].children.nodes,
                                Get(objs[i], <<"children">>).a, Append(parent, i))
                 ELSE {}
          : i \in 1..(IF Len(nodes) < Len(objs) THEN Len(nodes) ELSE Len(objs)) }

\* the nodes of the document given to documentToJSON with what it returned
ProjectedCall ==
    IF callee = "documentToJSON" /\ arg.doc /= Null /\ Has(arg.doc, "nodes")
    THEN Projected(arg.doc.nodes, Get(ret, <<"nodes">>).a, << >>)
    ELSE {}

\* C13: for every node of a projected document, at any depth, the key
\* `arguments' is missing iff the node has no argument entry, `properties'
\* iff it has no property entry (an entry carrying a string key), and
\* `children' iff it has no child node.
C13_OmitsEmpty ==
    \A p \in ProjectedCall :
        /\ ~HasKey(p.obj.fields, <<"arguments">>) <=> Len(ArgumentEntries(p.node)) = 0
        /\ ~HasKey(p.obj.fields, <<"properties">>) <=> Len(PropertyEntries(p.node)) = 0
        /\ ~HasKey(p.obj.fields, <<"children">>) <=> NumChildren(p.node) = 0

\* C14: the projected `arguments' array of every node is the sequence of
\* the values of the node's argument entries, in source order, however
\* arguments and properties are interleaved.
C14_ArgumentsInOrder ==
    \A p \in ProjectedCall :
        HasKey(p.obj.fields, <<"arguments">>) =>
            Get(p.obj, <<"arguments">>).a =
                [i \in 1..Len(ArgumentEntries(p.node)) |-> ArgumentEntries(p.node)[i].value]

\* the value of the last property entry of a node with the key k
LastValue(node, k) ==
    LET ps == PropertyEntries(node)
        i == CHOOSE i \in 1..Len(ps) :
                /\ ps[i].name.s = k
                /\ \A j \in (i + 1)..Len(ps) : ps[j].name.s /= k
    IN  ps[i].value

\* C15: the projected `properties' mapping of every node has exactly the
\* keys of the node's property entries, each with the value of the last
\* property entry of that key.
C15_PropertiesLastWins ==
    \A p \in ProjectedCall :
        HasKey(p.obj.fields, <<"properties">>) =>
            LET props == Get(p.obj, <<"properties">>)
                ps == PropertyEntries(p.node)
            IN  /\ { Keys(props)[i] : i \in 1..Len(props.fields) }
                       = { ps[i].name.s : i \in 1..Len(ps) }
                /\ \A i \in 1..Len(props.fields) :
                       props.fields[i].v = LastValue(p.node, props.fields[i].k)

\* the objects project the nodes one for one, in order, with their names,
\* and so do the `children' of each, at every depth
RECURSIVE SameShape(_, _)
SameShape(nodes, objs) ==
    /\ Len(objs) = Len(nodes)
    /\ \A i \in 1..Len(nodes) :
          /\ objs[i].t = "obj"
          /\ HasKey(objs[i].fields, <<"name">>)
          /\ Get(objs[i], <<"name">>) = Str(nodes[i].name)
          /\ NumChildren(nodes[i]) > 0 =>
                /\ HasKey(objs[i].fields, <<"children">>)
                /\ Get(objs[i], <<"children">>).t = "arr"
                /\ SameShape(nodes[i].children.nodes, Get(objs[i], <<"children">>).a)

\* C16: the projection of a document has one object per top-level node, in
\* the same order and with the node's name, and the `children' of each
\* object are the projections of the node's child nodes, in order, at every
\* nesting depth.
C16_StructurePreserved ==
    (callee = "documentToJSON" /\ arg.doc /= Null /\ Has(arg.doc, "nodes")) =>
        /\ Keys(ret) = << <<"nodes">> >>
        /\ SameShape(arg.doc.nodes, Get(ret, <<"nodes">>).a)
        /\ \A p \in ProjectedCall :
              NumChildren(p.node) > 0 =>
                  Get(p.obj, <<"children">>).a =
                      [i \in 1..NumChildren(p.node) |-> nodeToJSON(p.node.children.nodes[i])]

\* three top-level nodes, the second with two children of different names,
\* one of which has a child of its own
C16_Witness ==
    /\ callee = "documentToJSON"
    /\ Len(Get(ret, <<"nodes">>).a) = 3
    /\ \E p, q \in ProjectedCall :
          /\ Len(p.at) = 2 /\ Len(q.at) = 3
          /\ p.at = SubSeq(q.at, 1, 2)
          /\ Len(Get(p.obj, <<"children">>).a) = 1
          /\ Get(q.obj, <<"name">>) = Str(<<"<", "c", ">">>)

EmptyProjection == Obj(<< Field(<<"nodes">>, Arr(<< >>)) >>)

\* C17: the projection of a missing document and the projection of a
\* document with an empty node list are both { nodes: [] }.
C17_EmptyProjection ==
    callee = "documentToJSON" =>
        /\ arg.doc = Null => ret = EmptyProjection
        /\ (arg.doc /= Null /\ ~Has(arg.doc, "nodes")) => ret = EmptyProjection
        /\ (arg.doc /= Null /\ Has(arg.doc, "nodes") /\ Len(arg.doc.nodes) = 0) =>
              ret = EmptyProjection

C17_Witness ==
    /\ callee = "documentToJSON"
    /\ arg.doc = Null
    /\ ret = EmptyProjection

RECURSIVE NoError(_)
NoError(v) ==
    CASE v.t = "obj" -> \A i \in 1..Len(v.fields) : NoError(v.fields[i].v)
      [] v.t = "arr" -> \A i \in 1..Len(v.a) : NoError(v.a[i])
      [] OTHER -> v.t \in {"null", "str", "num", "bool"}

\* C19: the projection of a document never fails, whether the entries and
\* the children of its nodes are absent, empty or present, and a node with
\* no entries and no children projects to an object with the one key `name'.
C19_NeverThrows ==
    callee = "documentToJSON" =>
        /\ ret.t = "obj"
        /\ NoError(ret)
        /\ \A p \in ProjectedCall :
              (EntriesOf(p.node) = << >> /\ NumChildren(p.node) = 0) =>
                  Keys(p.obj) = << <<"name">> >>

\* a node that has neither an entries field nor a children field
C19_Witness ==
    /\ callee = "documentToJSON"
    /\ \E p \in ProjectedCall :
          /\ ~Has(p.node, "entries") /\ ~Has(p.node, "children")
          /\ Keys(p.obj) = << <<"name">> >>
    /\ \E p \in ProjectedCall :
          /\ Has(p.node, "entries") /\ p.node.entries = << >>
          /\ Has(p.node, "children") /\ p.node.children = Null
          /\ Keys(p.obj) = << <<"name">> >>

\* sub occurs in seq as a run of consecutive lexemes
Contains(seq, sub) ==
    \E i \in 1..(Len(seq) - Len(sub) + 1) : SubSeq(seq, i, i + Len(sub) - 1) = sub

\* the lexemes of a text that are markup when put in innerHTML unescaped
MarkupLexemes == {"<", ">", "&"}

\* C20: the markup of every node of a rendered tree has no `<', no `>' and
\* no `&' that comes from a node name, a property key or a string value:
\* each is there in its escaped form.  The value <script>alert(1)</script>
\* gives markup with &lt;script&gt; and without <script>.
C20_Escaped ==
    callee = "renderAST" =>
        \A r \in RenderedCall :
            LET html == r.elem.header.content.innerHTML
                entries == EntriesOf(r.node)
            IN  /\ \A i \in 1..Len(html) : html[i] \notin MarkupLexemes
                /\ Contains(html, escapeHtml(r.node.name))
                /\ \A i \in 1..Len(entries) :
                      /\ entries[i].value = Str(ScriptText) =>
                            /\ Contains(html, <<"&lt;", "script", "&gt;">>)
                            /\ ~Contains(html, <<"<", "script", ">">>)
                      /\ (entries[i].name /= Null /\ entries[i].name.s = <<"a", "&", "b">>) =>
                            Contains(html, <<"a", "&amp;", "b">>)

\* a tree with the script text as a value, `&' in a key and `<' in a name
C20_Witness ==
    /\ callee = "renderAST"
    /\ \E r \in RenderedCall :
          /\ \E i \in 1..Len(EntriesOf(r.node)) : r.node.entries[i].value = Str(ScriptText)
          /\ \E i \in 1..Len(EntriesOf(r.node)) :
                r.node.entries[i].name /= Null /\ r.node.entries[i].name.s = <<"a", "&", "b">>
          /\ Contains(r.elem.header.content.innerHTML, <<"&lt;", "script", "&gt;">>)
    /\ \E r \in RenderedCall :
          /\ r.node.name = <<"<", "c", ">">>
          /\ Contains(r.elem.header.content.innerHTML, <<"&lt;", "c", "&gt;">>)

\* C21: formatValue gives `null' for null and for undefined, the escaped
\* contents between double quotes for a string, String(value) for a number
\* or a boolean, and the escaped JSON.stringify(value) for any other value;
\* every value is in exactly one of the four cases.
C21_FormatValueCases ==
    callee = "formatValue" =>
        LET v == arg.value
            cases == << v.t \in {"null", "undef"},
                        v.t = "str",
                        v.t \in {"num", "bool"},
                        v.t \in {"arr", "obj"} >>
        IN  /\ Cardinality({ c \in 1..4 : cases[c] }) = 1
            /\ cases[1] => ret = << "null" >>
            /\ cases[2] =>
                  /\ Len(ret) = Len(v.s) + 2
                  /\ Head(ret) = "\"" /\ ret[Len(ret)] = "\""
                  /\ SubSeq(ret, 2, Len(ret) - 1) = escapeHtml(v.s)
            /\ cases[3] => ret = String(v)
            /\ cases[4] => ret = escapeHtml(JSONStringify(v, << >>, 0))
            /\ \A i \in 1..Len(ret) : ret[i] \notin MarkupLexemes
            /\ v = Num(-10) => ret = << "-10" >>
            /\ v = Bool(FALSE) => ret = << "false" >>
            /\ v = Str(<<"hello", " ", "<", "world", ">">>) =>
                  ret = << "\"", "hello", " ", "&lt;", "world", "&gt;", "\"" >>
            /\ v = Arr(<< Num(1), Num(2), Num(3) >>) =>
                  ret = << "[", "1", ",", "2", ",", "3", "]" >>
            /\ v = Obj(<< Field(<<"key">>, Str(<<"value">>)) >>) =>
                  ret = << "{", "\"", "key", "\"", ":", "\"", "value", "\"", "}" >>

\* formatValue(undefined)
C21_Witness ==
    /\ callee = "formatValue"
    /\ arg.value = Undefined
    /\ ret = << "null" >>

\* the markup of the entry region of a node by the entries' kinds in the
\* data model: the arguments, then the properties, each group in source order
ArgumentSpans(node) ==
    [i \in 1..Len(ArgumentEntries(node)) |->
        Span("ast-node-value", formatValue(ArgumentEntries(node)[i].value))]

PropertySpans(node) ==
    [i \in 1..Len(PropertyEntries(node)) |->
        Span("ast-node-property", escapeHtml(PropertyEntries(node)[i].name.s))
        \o <<"=">>
        \o Span("ast-node-value", formatValue(PropertyEntries(node)[i].value))]

EntryRegion(node) ==
    (IF Len(ArgumentEntries(node)) > 0
     THEN <<" ">> \o join(ArgumentSpans(node), <<" ">>) ELSE << >>)
    \o (IF Len(PropertyEntries(node)) > 0
        THEN <<" ">> \o join(PropertySpans(node), <<" ">>) ELSE << >>)

\* C22: after the name label, the markup of a node has the formatted values
\* of all its argument entries in source order, then all its property
\* entries in source order, each as escaped key, `=', formatted value, a
\* duplicated key once per entry; a node without entries has the label only.
C22_ArgumentsThenProperties ==
    \A r \in RenderedCall :
        r.elem.header.content.innerHTML =
            Span("ast-node-name", escapeHtml(r.node.name)) \o EntryRegion(r.node)

----------------------------------------------------------------------------
(* The page, event by event *)

\* C23: in every state the JSON surface has text iff a document is retained
\* iff the tree surface shows a tree or the `no nodes' placeholder, and both
\* surfaces are those of the document parsed from the text of the last
\* input event: never a tree over empty JSON, never JSON beside the
\* placeholder of the empty input or of the error.
C23_AllOrNothing ==
    /\ jsonContent /= << >> <=> currentDocument /= Null
    /\ currentDocument /= Null <=> ShowsRenderedTree
    /\ currentDocument /= Null =>
          /\ Parses
          /\ currentDocument = parse(Trim(kdlInput)).doc
          /\ jsonContent = renderJSON(currentDocument)
          /\ astContent = renderAST(currentDocument, expandedNodes)
    /\ currentDocument = Null =>
          /\ Blank \/ ~Parses
          /\ astContent \in { << EnterPlaceholder >>, << FixPlaceholder >> }

\* the input event after a tree was shown fails: both surfaces are reset
C23_Witness ==
    /\ lastEvent.kind = "input"
    /\ lastEvent.from = "tree"
    /\ ~Blank /\ ~Parses
    /\ currentDocument = Null
    /\ jsonContent = << >>
    /\ astContent = << FixPlaceholder >>

\* C24: an input event whose trimmed text is not empty calls the parser
\* once, with the trimmed text; an input event with empty or white-space
\* text, a toggle and a change of the view selector do not call it.
C24_ParseOncePerInput ==
    [][ parseCalls' = IF lastEvent'.kind = "input" /\ Trim(kdlInput') /= << >>
                      THEN << Trim(kdlInput') >>
                      ELSE << >> ]_vars

\* an input event with white space around the text: one call, trimmed
C24_Witness ==
    /\ lastEvent.kind = "input"
    /\ Trim(kdlInput) /= kdlInput
    /\ parseCalls = << Trim(kdlInput) >>

\* the names of the nodes on the way from the root to the node at the
\* index path `at'
RECURSIVE NamesAt(_, _)
NamesAt(nodes, at) ==
    IF at = << >> THEN << >>
    ELSE << nodes[Head(at)].name >>
         \o NamesAt(IF Len(at) > 1 THEN nodes[Head(at)].children.nodes ELSE << >>, Tail(at))

\* C25: two nodes of a rendered tree whose lists of ancestor names, their
\* own included, differ never get the same expand/collapse key, whatever
\* the names, names with the separator `.' in them included.
C25_KeyInjective ==
    \A r, s \in RenderedCall :
        ( /\ NumChildren(r.node) > 0
          /\ NumChildren(s.node) > 0
          /\ NamesAt(arg.doc.nodes, r.at) /= NamesAt(arg.doc.nodes, s.at) ) =>
            r.elem.header.toggle.onclick /= s.elem.header.toggle.onclick

\* a tree is on display for a retained document with a node that has
\* children, and no error is shown
TreeWithChildren ==
    /\ errorHidden
    /\ currentDocument /= Null
    /\ IsTree(astContent)
    /\ \E r \in RenderedNow : NumChildren(r.node) > 0

\* C26: toggle buttons exist only while a tree with a node that has
\* children is on display, so a toggle is activated in that state only, and
\* the tree it renders anew is never the `No nodes in document' placeholder
\* in place of a tree, of the empty-input placeholder or of the error
\* placeholder.
C26_ToggleOnlyInTree ==
    [][ /\ ToggleIds(astContent) /= {} => TreeWithChildren
        /\ toggleCount' /= toggleCount =>
              /\ TreeWithChildren
              /\ Len(currentDocument.nodes) > 0
              /\ IsTree(astContent')
              /\ astContent' /= << NoNodesPlaceholder >> ]_vars

\* a toggle has rendered the tree anew
C26_Witness ==
    /\ lastEvent.kind = "toggle"
    /\ BagCardinality(toggleCount) > 0
    /\ TreeWithChildren
    /\ astContent = renderAST(currentDocument, expandedNodes)
    /\ astContent /= << NoNodesPlaceholder >>

\* the key of a node on display, from the names on the way to it
KeyOf(r) == join(NamesAt(currentDocument.nodes, r.at), <<".">>)

\* C27: whenever a tree is on display, every node with children is shown
\* collapsed iff its key is not in the expand set, and the glyph of its
\* toggle is the down-pointing one iff the key is in the set.
C27_TreeFollowsSet ==
    \A r \in RenderedNow :
        NumChildren(r.node) > 0 =>
            /\ Collapsed(r) <=> KeyOf(r) \notin expandedNodes
            /\ r.elem.header.toggle.textContent = ExpandedGlyph <=> KeyOf(r) \in expandedNodes
            /\ r.elem.header.toggle.textContent \in {ExpandedGlyph, CollapsedGlyph}

\* after a toggle, one node is shown expanded and another collapsed
C27_Witness ==
    /\ lastEvent.kind = "toggle"
    /\ \E r, s \in RenderedNow :
          /\ NumChildren(r.node) > 0 /\ NumChildren(s.node) > 0
          /\ ~Collapsed(r) /\ r.elem.header.toggle.textContent = ExpandedGlyph
          /\ Collapsed(s) /\ s.elem.header.toggle.textContent = CollapsedGlyph
          /\ KeyOf(r) \in expandedNodes /\ KeyOf(s) \notin expandedNodes

\* C28: a toggle leaves the retained document, the JSON surface, the error
\* indicator and the visibility of the views as they were; a change of the
\* view selector leaves the retained document, the contents of both
\* surfaces, the error indicator and the expand set as they were; an input
\* event leaves the visibility of the views as it was.
C28_Frames ==
    [][ /\ lastEvent'.kind = "toggle" =>
              UNCHANGED <<currentDocument, jsonContent, errorText, errorHidden,
                          astViewHidden, jsonViewHidden>>
        /\ lastEvent'.kind = "view" =>
              UNCHANGED <<currentDocument, astContent, jsonContent, errorText,
                          errorHidden, expandedNodes>>
        /\ lastEvent'.kind = "input" =>
              UNCHANGED <<astViewHidden, jsonViewHidden>> ]_vars

\* the view was changed to JSON while an error was shown and a node was
\* in the expand set
C28_Witness ==
    /\ lastEvent.kind = "view"
    /\ viewSelector = "json"
    /\ astViewHidden
    /\ ~errorHidden
    /\ expandedNodes /= {}

----------------------------------------------------------------------------
(* The tree and the projection side by side *)

\* the text of the span that opens at position i of a markup
SpanText(html, i) ==
    LET j == CHOOSE j \in (i + 3)..Len(html) :
                 /\ html[j] = "</span>"
                 /\ \A k \in (i + 3)..(j - 1) : html[k] /= "</span>"
    IN  SubSeq(html, i + 3, j - 1)

\* where the spans of a class open in a markup
SpansOf(html, className) ==
    { i \in 1..(Len(html) - 1) : html[i] = "<span class=\"" /\ html[i + 1] = className }

\* the members of a set of positions, in increasing order
RECURSIVE Ascending(_)
Ascending(positions) ==
    IF positions = {} THEN << >>
    ELSE LET first == CHOOSE i \in positions : \A j \in positions : i <= j
         IN  << first >> \o Ascending(positions \ {first})

\* the values shown as arguments: the value spans that follow no `='
ShownArguments(html) ==
    LET at == Ascending({ i \in SpansOf(html, "ast-node-value") : html[i - 1] /= "=" })
    IN  [n \in 1..Len(at) |-> SpanText(html, at[n])]

\* the keys shown as properties
ShownKeys(html) == { SpanText(html, i) : i \in SpansOf(html, "ast-node-property") }

\* C29: for every node, the values the tree shows as arguments are the
\* formatted elements of `arguments' in the node's projection, in order, and
\* the keys the tree shows as properties are the keys of `properties' in the
\* projection.
C29_SameClassification ==
    \A r \in RenderedCall :
        LET html == r.elem.header.content.innerHTML
            obj == nodeToJSON(r.node)
            arguments == IF HasKey(obj.fields, <<"arguments">>)
                         THEN Get(obj, <<"arguments">>).a ELSE << >>
            properties == IF HasKey(obj.fields, <<"properties">>)
                          THEN Keys(Get(obj, <<"properties">>)) ELSE << >>
        IN  /\ ShownArguments(html) = [i \in 1..Len(arguments) |-> formatValue(arguments[i])]
            /\ ShownKeys(html) = { escapeHtml(properties[i]) : i \in 1..Len(properties) }

----------------------------------------------------------------------------
(* utils.js: the exported functions the unit tests import *)

utils_escapeHtml(text) ==
    [i \in 1..Len(text) |->
        IF text[i] = "&" THEN "&amp;"
        ELSE IF text[i] = "<" THEN "&lt;"
        ELSE IF text[i] = ">" THEN "&gt;"
        ELSE text[i]]

utils_formatValue(value) ==
    CASE value.t \in {"null", "undef"} -> << "null" >>
      [] value.t = "str" -> <<"\"">> \o utils_escapeHtml(value.s) \o <<"\"">>
      [] value.t \in {"num", "bool"} -> utils_escapeHtml(String(value))
      [] OTHER -> utils_escapeHtml(JSONStringify(value, << >>, 0))

\* node.entries.forEach over the first n entries: args and props so far
RECURSIVE utils_forEach(_, _)
utils_forEach(entries, n) ==
    IF n = 0 THEN [args |-> << >>, props |-> << >>]
    ELSE LET before == utils_forEach(entries, n - 1)
             entry == entries[n]
         IN  IF Truthy(entry.name)
             THEN [before EXCEPT !.props = SetField(@, entry.name.s, entry.value)]
             ELSE [before EXCEPT !.args = Append(@, entry.value)]

RECURSIVE utils_nodeToJSON(_)

\* variant: `arguments' is set even when args is empty
utils_nodeToJSON_emptyArguments(node) ==
    LET withEntries == Has(node, "entries") /\ Len(node.entries) > 0
        collected == IF withEntries THEN utils_forEach(node.entries, Len(node.entries))
                     ELSE [args |-> << >>, props |-> << >>]
        withChildren ==
            /\ Has(node, "children") /\ Truthy(node.children)
            /\ Has(node.children, "nodes") /\ Len(node.children.nodes) > 0
    IN  Obj(<< Field(<<"name">>, Str(node.name)) >>
            \o << Field(<<"arguments">>, Arr(collected.args)) >>
            \o (IF Len(collected.props) > 0
                THEN << Field(<<"properties">>, Obj(collected.props)) >> ELSE << >>)
            \o (IF withChildren
                THEN << Field(<<"children">>,
                              Arr([i \in 1..Len(node.children.nodes) |->
                                      utils_nodeToJSON(node.children.nodes[i])])) >>
                ELSE << >>))

utils_nodeToJSON(node) ==
    LET withEntries == Has(node, "entries") /\ Len(node.entries) > 0
        collected == IF withEntries THEN utils_forEach(node.entries, Len(node.entries))
                     ELSE [args |-> << >>, props |-> << >>]
        withChildren ==
            /\ Has(node, "children") /\ Truthy(node.children)
            /\ Has(node.children, "nodes") /\ Len(node.children.nodes) > 0
    IN  Obj(<< Field(<<"name">>, Str(node.name)) >>
            \o (IF Len(collected.args) > 0
                THEN << Field(<<"arguments">>, Arr(collected.args)) >> ELSE << >>)
            \o (IF Len(collected.props) > 0
                THEN << Field(<<"properties">>, Obj(collected.props)) >> ELSE << >>)
            \o (IF withChildren
                THEN << Field(<<"children">>,
                              Arr([i \in 1..Len(node.children.nodes) |->
                                      utils_nodeToJSON(node.children.nodes[i])])) >>
                ELSE << >>))

utils_documentToJSON(doc) ==
    IF ~Truthy(doc) \/ ~Has(doc, "nodes")
    THEN Obj(<< Field(<<"nodes">>, Arr(<< >>)) >>)
    ELSE Obj(<< Field(<<"nodes">>,
                      Arr([i \in 1..Len(doc.nodes) |-> utils_nodeToJSON(doc.nodes[i])])) >>)

\* C30: formatValue, documentToJSON and nodeToJSON of app.js return, for
\* every input, what the functions of the same names exported by utils.js
\* return.
C30_SameAsUtils ==
    /\ callee = "formatValue" => ret = utils_formatValue(arg.value)
    /\ callee = "documentToJSON" =>
          /\ ret = utils_documentToJSON(arg.doc)
          /\ \A p \in ProjectedCall :
                /\ p.obj = utils_nodeToJSON(p.node)
                /\ nodeToJSON(p.node) = utils_nodeToJSON(p.node)

\* a document whose node has an argument, a property and nested children
C30_Witness ==
    /\ callee = "documentToJSON"
    /\ ret = utils_documentToJSON(arg.doc)
    /\ \E p \in ProjectedCall :
          /\ Len(p.at) = 1
          /\ Keys(p.obj) = << <<"name">>, <<"arguments">>, <<"properties">>, <<"children">> >>
          /\ Len(Get(p.obj, <<"children">>).a) = 2

====
